---- MODULE Spec2Model ----
(***************************************************************************)
(* Model of the protocol layer of harla_zk (src/src/zk.rs and the three    *)
(* command line tools): card-key derivation, proof generation with the     *)
(* decoy branch, and verification against a supplied chain record.         *)
(*                                                                         *)
(* The pairing engine (Groth16), the circuit interpreter and the MiMC      *)
(* permutation are external; they are idealised:                           *)
(*   - a Groth16 proof binds exactly the public inputs of its witness,     *)
(*   - mimc7 is an injective numbering of (rounds, x, k),                  *)
(*   - the compiled circuit (zokrates/out, not among the sources) enforces *)
(*     the age relation on its inputs and returns the card key.            *)
(* The scalar field is scaled down to the prime P; day numbers stay well   *)
(* inside (-P/2, P/2) as i32 values stay inside the real field.            *)
(***************************************************************************)
EXTENDS Integers, Sequences, FiniteSets, TLC

VARIABLES
    pc,          \* position of the certify / prove / transport / verify run
    private,     \* Private {birthday, nonce} held by the prover
    registry,    \* PublicChain {photo_hash, prover_key} written by the certifier
    contract,    \* contract identifier of the card
    rq,          \* QrRequest handed to generate_proof
    arguments,   \* circuit input vector built by generate_proof
    delta,       \* local `delta` of generate_proof after the branch
    is_younger,  \* local `is_younger` of generate_proof after the branch
    steps,       \* engine calls generate_proof made, in order
    gen_result,  \* Result<ProofQrCode, String> of generate_proof
    inflight,    \* ProofQrCode in transport to the verifier
    vchain,      \* PublicChain supplied to verify_proof
    verdict,     \* outcome of verify_proof: "ok", "no", "panic" ("none" before)
    in1, in2,    \* inputs of two card-key derivations (decimal arguments)
    key1, key2,  \* their generate_prover_key results
    kdone        \* the two derivations have run

vars == <<pc, private, registry, contract, rq, arguments, delta, is_younger,
          steps, gen_result, inflight, vchain, verdict,
          in1, in2, key1, key2, kdone>>

protoVars == <<pc, private, registry, contract, rq, arguments, delta,
               is_younger, steps, gen_result, inflight, vchain, verdict>>

keyVars == <<in1, in2, key1, key2, kdone>>

----------------------------------------------------------------------------
\* Bounds of the explored inputs.
MaxDay == 2
MaxDelta == 2
MaxVal == 1
MaxKeyDay == 1
MaxKeyVal == 2

\* Stand-in for the BN128 scalar field prime (the literal of zk.rs:198).
P == 11
\* A byte vector is a little-endian sequence of FieldBytes bytes.
ByteBase == 256
FieldBytes == 32
MimcRounds == 10

Days == 0..MaxDay
Deltas == -1..MaxDelta
Vals == 0..MaxVal
Relations == {"Older", "Younger"}

----------------------------------------------------------------------------
\* Field codec (zokrates_field::Bn128Field as used by zk.rs).

RECURSIVE LeValue(_)
LeValue(bytes) ==
    IF bytes = <<>> THEN 0 ELSE Head(bytes) + ByteBase * LeValue(Tail(bytes))

RECURSIVE LeBytes(_, _)
LeBytes(v, n) ==
    IF n = 0 THEN <<>> ELSE <<v % ByteBase>> \o LeBytes(v \div ByteBase, n - 1)

\* Bn128Field::from_byte_vector: the little-endian value of the bytes.
from_byte_vector(bytes) == LeValue(bytes)

\* Bn128Field::into_byte_vector: 32 little-endian bytes.
into_byte_vector(f) == LeBytes(f, FieldBytes)

\* Bn128Field::from(i32): the residue of a day number or flag.
from_i32(v) == v % P

\* Bn128Field::try_from_dec_str (bn128 of the tools): reduces the numeral.
bn128(n) == n % P

field_add(a, b) == (a + b) % P

field_mul(a, b) == (a * b) % P

RECURSIVE DecDigits(_)
DecDigits(n) == IF n < 10 THEN <<n>> ELSE DecDigits(n \div 10) \o <<n % 10>>

\* Bn128Field::to_dec_string
to_dec_string(f) == DecDigits(f)

RECURSIVE FrFromDigits(_, _)
FrFromDigits(acc, s) ==
    IF s = <<>> THEN acc ELSE FrFromDigits((acc * 10 + Head(s)) % P, Tail(s))

\* mimc_rs::Fr::from_str: digit by digit in the field.
Fr_from_str(s) == FrFromDigits(0, s)

RECURSIVE HexDigits(_)
HexDigits(n) == IF n < 16 THEN <<n>> ELSE HexDigits(n \div 16) \o <<n % 16>>

\* bn128.to_biguint().to_str_radix(16)
to_str_radix16(f) == HexDigits(f)

RECURSIVE FromHexDigits(_, _)
FromHexDigits(acc, s) ==
    IF s = <<>> THEN acc ELSE FromHexDigits(acc * 16 + Head(s), Tail(s))

from_str_radix16(s) == FromHexDigits(0, s)

----------------------------------------------------------------------------
\* Commitment derivation.

\* mimc_rs::Mimc7::new(rounds).hash(x, k): an injective numbering of digests.
Mimc7_hash(rounds, x, k) == (rounds * P + x) * P + k

zok2mimc(value) == Fr_from_str(to_dec_string(value))

mimc2zok(value) == from_byte_vector(LeBytes(value, FieldBytes))

compute_mimc7r10_hash(x, k) ==
    mimc2zok(Mimc7_hash(MimcRounds, zok2mimc(x), zok2mimc(k)))

generate_prover_key_swapped(priv, contr, photo_hash) ==
    into_byte_vector(
        compute_mimc7r10_hash(
            field_mul(from_byte_vector(photo_hash), from_byte_vector(contr)),
            field_add(from_i32(priv.birthday), from_byte_vector(priv.nonce))))

generate_prover_key_sum(priv, contr, photo_hash) ==
    into_byte_vector(
        compute_mimc7r10_hash(
            field_add(from_i32(priv.birthday), from_byte_vector(priv.nonce)),
            field_add(from_byte_vector(photo_hash), from_byte_vector(contr))))

generate_prover_key(priv, contr, photo_hash) ==
    into_byte_vector(
        compute_mimc7r10_hash(
            field_add(from_i32(priv.birthday), from_byte_vector(priv.nonce)),
            field_mul(from_byte_vector(photo_hash), from_byte_vector(contr))))

----------------------------------------------------------------------------
\* Protocol data model.

PublicQr(today, contr, d, relation) ==
    [today |-> today, contract |-> contr, delta |-> d, relation |-> relation]

PublicChain(photo_hash, prover_key) ==
    [photo_hash |-> photo_hash, prover_key |-> prover_key]

Private(birthday, nonce) == [birthday |-> birthday, nonce |-> nonce]

QrRequest(qr, chain, priv) == [qr |-> qr, chain |-> chain, private |-> priv]

\* QrRequest::is_relation_valid: strict on both sides.
is_relation_valid(r) ==
    IF r.qr.relation = "Older"
    THEN r.qr.today - r.private.birthday > r.qr.delta
    ELSE r.qr.today - r.private.birthday < r.qr.delta

----------------------------------------------------------------------------
\* The external engine.

\* The day number a small field element stands for.
Signed(f) == IF f > P \div 2 THEN f - P ELSE f

\* The compiled circuit's constraint on
\* [birthday, delta, today, is_younger, photo_hash, contract, nonce].
CircuitHolds(args) ==
    LET age == Signed(args[3]) - Signed(args[1])
    IN  IF args[4] = 1 THEN age < Signed(args[2]) ELSE age > Signed(args[2])

\* The circuit's return value: the card key of its private inputs.
CircuitOut(args) ==
    compute_mimc7r10_hash(field_add(args[1], args[7]), field_mul(args[5], args[6]))

\* ir::Interpreter::execute: a witness, or an error when a constraint fails.
\* The witness's public part is [delta, today, is_younger, photo_hash,
\* contract, return value].
interpreter_execute(args) ==
    IF CircuitHolds(args)
    THEN [ok |-> TRUE,
          public |-> <<args[2], args[3], args[4], args[5], args[6], CircuitOut(args)>>]
    ELSE [ok |-> FALSE, public |-> <<>>]

\* G16::generate_proof followed by proof.write: bytes of a proof that binds
\* the witness's public inputs.
G16_generate_proof(witness) == [wellformed |-> TRUE, stmt |-> witness.public]

\* Bytes that are not the encoding of three curve points.
GarbageBytes == [wellformed |-> FALSE, stmt |-> <<>>]

\* BellmanProof::<Bn256>::read
BellmanProof_read(bytes) == [ok |-> bytes.wellformed, proof |-> bytes]

\* <G16 as ProofSystem>::verify on the proof and the hex-encoded inputs.
G16_verify(proof, inputs) ==
    proof.stmt = [i \in 1..Len(inputs) |-> from_str_radix16(inputs[i])]

----------------------------------------------------------------------------
\* generate_proof

circuit_delta(r) == IF is_relation_valid(r) THEN r.qr.delta ELSE 0

circuit_is_younger_by_relation(r) == IF r.qr.relation = "Younger" THEN 1 ELSE 0

circuit_is_younger(r) ==
    IF is_relation_valid(r) /\ r.qr.relation = "Younger" THEN 1 ELSE 0

circuit_arguments(r) ==
    << from_i32(r.private.birthday),
       from_i32(circuit_delta(r)),
       from_i32(r.qr.today),
       from_i32(circuit_is_younger(r)),
       from_byte_vector(r.chain.photo_hash),
       from_byte_vector(r.qr.contract),
       from_byte_vector(r.private.nonce) >>

package_qr_substituted(r, proof_bytes) ==
    [public |-> [r.qr EXCEPT !.delta = circuit_delta(r)], proof |-> proof_bytes]

package_qr(r, proof_bytes) == [public |-> r.qr, proof |-> proof_bytes]

NoQr == [public |-> PublicQr(0, <<>>, 0, "Older"), proof |-> GarbageBytes]

generate_proof(r) ==
    LET args == circuit_arguments(r)
        witness == interpreter_execute(args)
    IN  IF ~witness.ok
        THEN [ok |-> FALSE, qr |-> NoQr, steps |-> <<"execute">>]
        ELSE [ok |-> TRUE,
              qr |-> package_qr(r, G16_generate_proof(witness)),
              steps |-> <<"execute", "generate_proof">>]

----------------------------------------------------------------------------
\* verify_proof

verify_inputs_swapped(qr, chain) ==
    << from_i32(qr.public.today),
       from_i32(qr.public.delta),
       from_i32(IF qr.public.relation = "Younger" THEN 1 ELSE 0),
       from_byte_vector(chain.photo_hash),
       from_byte_vector(qr.public.contract),
       from_byte_vector(chain.prover_key) >>

verify_inputs(qr, chain) ==
    << from_i32(qr.public.delta),
       from_i32(qr.public.today),
       from_i32(IF qr.public.relation = "Younger" THEN 1 ELSE 0),
       from_byte_vector(chain.photo_hash),
       from_byte_vector(qr.public.contract),
       from_byte_vector(chain.prover_key) >>

verify_answer_inverted(ans) == IF ans THEN "no" ELSE "ok"

verify_answer(ans) == IF ans THEN "ok" ELSE "no"

verify_proof(qr, chain) ==
    LET rd == BellmanProof_read(qr.proof)
        inputs == verify_inputs(qr, chain)
        hex == [i \in 1..Len(inputs) |-> to_str_radix16(inputs[i])]
    IN  IF ~rd.ok THEN "panic" ELSE verify_answer(G16_verify(rd.proof, hex))

----------------------------------------------------------------------------
\* The run: certifier-zk, prove, transport, verifier-zk.

NoPrivate == Private(0, <<>>)
NoChain == PublicChain(<<>>, <<>>)
NoRq == QrRequest(PublicQr(0, <<>>, 0, "Older"), NoChain, NoPrivate)
NoKeyInput == [birthday |-> 0, nonce |-> 0, photo_hash |-> 0, contract |-> 0]

ProtoInit ==
    /\ pc = "start"
    /\ private = NoPrivate
    /\ registry = NoChain
    /\ contract = <<>>
    /\ rq = NoRq
    /\ arguments = <<>>
    /\ delta = 0
    /\ is_younger = 0
    /\ steps = <<>>
    /\ gen_result = [ok |-> FALSE, qr |-> NoQr]
    /\ inflight = NoQr
    /\ vchain = NoChain
    /\ verdict = "none"

KeyIdle ==
    /\ in1 = NoKeyInput
    /\ in2 = NoKeyInput
    /\ key1 = <<>>
    /\ key2 = <<>>
    /\ kdone = FALSE

Init == ProtoInit /\ KeyIdle

\* certifier-zk main: a fresh nonce, the card key, the chain record.
Certify(b, n, ph, c) ==
    /\ pc = "start"
    /\ LET priv == Private(b, into_byte_vector(n))
           photo == into_byte_vector(bn128(ph))
           contr == into_byte_vector(bn128(c))
       IN  /\ private' = priv
           /\ contract' = contr
           /\ registry' = PublicChain(photo, generate_prover_key(priv, contr, photo))
    /\ pc' = "certified"
    /\ UNCHANGED <<rq, arguments, delta, is_younger, steps, gen_result,
                   inflight, vchain, verdict>>
    /\ UNCHANGED keyVars

\* A prover key that belongs to another birthday.
ForeignKey ==
    generate_prover_key(Private(private.birthday + 1, private.nonce),
                        contract, registry.photo_hash)

\* prove main / a library caller: build the request and call generate_proof.
Prove(today, d, relation, foreign) ==
    /\ pc = "certified"
    /\ LET chain == IF foreign
                    THEN PublicChain(registry.photo_hash, ForeignKey)
                    ELSE registry
           r == QrRequest(PublicQr(today, contract, d, relation), chain, private)
           res == generate_proof(r)
       IN  /\ rq' = r
           /\ arguments' = circuit_arguments(r)
           /\ delta' = circuit_delta(r)
           /\ is_younger' = circuit_is_younger(r)
           /\ steps' = res.steps
           /\ gen_result' = [ok |-> res.ok, qr |-> res.qr]
           /\ inflight' = res.qr
    /\ pc' = "generated"
    /\ UNCHANGED <<private, registry, contract, vchain, verdict>>
    /\ UNCHANGED keyVars

\* The proof bytes are damaged on the way to the verifier.
Garble ==
    /\ pc = "generated"
    /\ gen_result.ok
    /\ inflight.proof.wellformed
    /\ inflight' = [inflight EXCEPT !.proof = GarbageBytes]
    /\ UNCHANGED <<pc, private, registry, contract, rq, arguments, delta,
                   is_younger, steps, gen_result, vchain, verdict>>
    /\ UNCHANGED keyVars

\* The chain records a verifier may be handed.
SuppliedChains ==
    { PublicChain(into_byte_vector(bn128(ph)), k) :
        ph \in Vals, k \in {registry.prover_key, ForeignKey} }

\* verifier-zk main: verify the received artifact against the supplied chain.
Verify(chain) ==
    /\ pc = "generated"
    /\ gen_result.ok
    /\ vchain' = chain
    /\ verdict' = verify_proof(inflight, chain)
    /\ pc' = "verified"
    /\ UNCHANGED <<private, registry, contract, rq, arguments, delta,
                   is_younger, steps, gen_result, inflight>>
    /\ UNCHANGED keyVars

Next ==
    \/ \E b \in Days, n \in Vals, ph \in Vals, c \in Vals : Certify(b, n, ph, c)
    \/ \E today \in Days, d \in Deltas, relation \in Relations, foreign \in BOOLEAN :
          Prove(today, d, relation, foreign)
    \/ Garble
    \/ \E chain \in SuppliedChains : Verify(chain)

Spec == Init /\ [][Next]_vars

----------------------------------------------------------------------------
\* Card-key derivations on their own: two derivations side by side.

KeyDays == 0..MaxKeyDay
\* Decimal arguments: small ones, and the ones around the prime.
KeyVals == (0..MaxKeyVal) \cup {P - 1, P, P + 1}

KeyInputs ==
    [birthday : KeyDays, nonce : KeyVals, photo_hash : KeyVals, contract : KeyVals]

\* The second derivation changes the (photo_hash, contract) pair, or the
\* birthday alone, or the nonce alone.
Variants(i) ==
    {[i EXCEPT !.photo_hash = ph, !.contract = c] : ph \in KeyVals, c \in KeyVals}
    \cup {[i EXCEPT !.birthday = b] : b \in KeyDays}
    \cup {[i EXCEPT !.nonce = n] : n \in KeyVals}

KeyInit ==
    /\ ProtoInit
    /\ in1 \in KeyInputs
    /\ in2 \in Variants(in1)
    /\ key1 = <<>>
    /\ key2 = <<>>
    /\ kdone = FALSE

\* certifier-zk main on decimal arguments.
DeriveFrom(i) ==
    generate_prover_key(Private(i.birthday, into_byte_vector(bn128(i.nonce))),
                        into_byte_vector(bn128(i.contract)),
                        into_byte_vector(bn128(i.photo_hash)))

DeriveKeys ==
    /\ ~kdone
    /\ key1' = DeriveFrom(in1)
    /\ key2' = DeriveFrom(in2)
    /\ kdone' = TRUE
    /\ UNCHANGED <<in1, in2>>
    /\ UNCHANGED protoVars

KeyNext == DeriveKeys

SpecKey == KeyInit /\ [][KeyNext]_vars

----------------------------------------------------------------------------
\* Properties.

GenDone == pc \in {"generated", "verified"}

\* The claim of the request is true: strictly older, or strictly younger.
ClaimTrue ==
    \/ rq.qr.relation = "Older" /\ rq.qr.today - rq.private.birthday > rq.qr.delta
    \/ rq.qr.relation = "Younger" /\ rq.qr.today - rq.private.birthday < rq.qr.delta

\* The card key of the values generate_proof was given.
DerivedKey ==
    generate_prover_key(rq.private, rq.qr.contract, rq.chain.photo_hash)

KeyCorrect == rq.chain.prover_key = DerivedKey

\* The verifier received the artifact as generated.
Intact == inflight = gen_result.qr

RelationFlag == IF rq.qr.relation = "Younger" THEN 1 ELSE 0

\* C1: with a correctly derived prover_key on chain and a true claim,
\* generate_proof returns Ok(p) and verify_proof(p, chain) with the same
\* chain accepts.
C1_Completeness ==
    (GenDone /\ KeyCorrect /\ ClaimTrue) =>
        /\ gen_result.ok
        /\ (pc = "verified" /\ Intact /\ vchain = rq.chain) => verdict = "ok"

C1_Witness ==
    /\ pc = "verified" /\ KeyCorrect /\ ClaimTrue /\ Intact
    /\ vchain = rq.chain /\ verdict = "ok"
    /\ rq.qr.relation = "Younger"

\* C2: with a correctly derived prover_key and a false claim (the marginal
\* case today - birthday = delta included), generate_proof still returns an
\* artifact and verify_proof against the same chain rejects it.
C2_FalseClaimProvedAndRejected ==
    (GenDone /\ KeyCorrect /\ ~ClaimTrue) =>
        /\ gen_result.ok
        /\ (pc = "verified" /\ Intact /\ vchain = rq.chain) => verdict = "no"

\* C3: proof bytes that cannot be decoded give the same "not verified"
\* outcome as an invalid proof; verify_proof never aborts.
C3_MalformedIsPlainReject ==
    (pc = "verified" /\ ~inflight.proof.wellformed) => verdict = "no"

\* C4: whether the claim holds or not, generate_proof makes the same engine
\* calls (one circuit execution, then one proof construction) and returns Ok
\* with an artifact of the same structure; it never returns an error.
C4_SameStepsAndShape ==
    GenDone =>
        /\ steps = <<"execute", "generate_proof">>
        /\ gen_result.ok
        /\ gen_result.qr.proof.wellformed
        /\ Len(gen_result.qr.proof.stmt) = 6

\* C5: a proof generated for a true claim is rejected whenever the supplied
\* chain.prover_key differs from the card key of the generation inputs, or
\* the supplied chain.photo_hash differs from the one used at generation.
C5_ChainIsAuthoritative ==
    ( /\ pc = "verified" /\ Intact /\ ClaimTrue
      /\ \/ vchain.prover_key # DerivedKey
         \/ vchain.photo_hash # rq.chain.photo_hash )
    => verdict = "no"

C5_Witness ==
    /\ pc = "verified" /\ Intact /\ ClaimTrue
    /\ vchain.photo_hash = rq.chain.photo_hash
    /\ vchain.prover_key # DerivedKey
    /\ verdict = "no"

\* C7: the ProofQrCode returned by generate_proof carries request.qr
\* unchanged, in the decoy branch too (the requested delta and relation, not
\* the substituted delta = 0).
C7_PublicQrUnchanged ==
    (GenDone /\ gen_result.ok) => gen_result.qr.public = rq.qr

C7_Witness ==
    /\ GenDone /\ gen_result.ok /\ ~ClaimTrue
    /\ rq.qr.delta # 0 /\ delta = 0
    /\ gen_result.qr.public.delta = rq.qr.delta

\* C9 as stated: the is_younger input of the circuit is 1 if the relation is
\* Younger and 0 otherwise, for every request, and so always equals the flag
\* verify_proof rebuilds from the embedded PublicQr.
C9_FlagFollowsRelation ==
    GenDone =>
        /\ is_younger = RelationFlag
        /\ arguments[4] = from_i32(RelationFlag)
        /\ gen_result.ok => arguments[4] = verify_inputs(gen_result.qr, rq.chain)[3]

\* C9 amended: the is_younger input is 1 exactly when the relation is
\* Younger and the claim is valid; in the decoy branch it is 0, so it equals
\* the verifier's flag exactly when the claim is valid or the relation Older.
C9_FlagOnlyWhenValid ==
    GenDone =>
        /\ is_younger = (IF rq.qr.relation = "Younger" /\ ClaimTrue THEN 1 ELSE 0)
        /\ arguments[4] = from_i32(is_younger)
        /\ gen_result.ok =>
              ( arguments[4] = verify_inputs(gen_result.qr, rq.chain)[3]
                <=> (ClaimTrue \/ rq.qr.relation = "Older") )

C9_Witness ==
    /\ GenDone /\ gen_result.ok
    /\ rq.qr.relation = "Younger" /\ ~ClaimTrue
    /\ arguments[4] = 0
    /\ verify_inputs(gen_result.qr, rq.chain)[3] = 1

\* C10: the delta generate_proof passes to the circuit is never negative.
C10_DeltaNeverNegative ==
    GenDone => (delta >= 0 /\ Signed(arguments[2]) >= 0)

----------------------------------------------------------------------------
\* Properties of the card key (under SpecKey).

KeyX(i) == (i.birthday + i.nonce) % P
KeyK(i) == (i.photo_hash * i.contract) % P

SamePair ==
    /\ in1.photo_hash % P = in2.photo_hash % P
    /\ in1.contract % P = in2.contract % P

\* How many of the four inputs differ as field elements.
Changed ==
    { f \in {"birthday", "nonce", "photo_hash", "contract"} : in1[f] % P # in2[f] % P }

\* C6 as stated: with the same (birthday, nonce), two distinct
\* (photo_hash, contract) pairs give different keys, and changing any single
\* input changes the key.
C6_DistinctPairsDistinctKeys ==
    kdone =>
        /\ (in1.birthday = in2.birthday /\ in1.nonce % P = in2.nonce % P /\ ~SamePair)
              => key1 # key2
        /\ Cardinality(Changed) = 1 => key1 # key2

\* C6 amended: two derivations give the same key exactly when
\* (birthday + nonce) mod p and (photo_hash * contract) mod p both agree.
\* So changing the birthday or the nonce alone changes the key, and changing
\* photo_hash (contract) alone changes it unless contract (photo_hash) is 0.
C6_KeyBindsSumAndProduct ==
    kdone =>
        /\ key1 = key2 <=> (KeyX(in1) = KeyX(in2) /\ KeyK(in1) = KeyK(in2))
        /\ (Changed = {"birthday"} \/ Changed = {"nonce"}) => key1 # key2
        /\ Changed = {"photo_hash"} => (key1 # key2 <=> in1.contract % P # 0)
        /\ Changed = {"contract"} => (key1 # key2 <=> in1.photo_hash % P # 0)

C6_Witness ==
    /\ kdone
    /\ in1.birthday = in2.birthday /\ in1.nonce = in2.nonce
    /\ ~SamePair
    /\ KeyK(in1) # 0
    /\ key1 = key2

\* C8: the key is mimc7r10(x, k), one hash of 10 rounds, with
\* x = (birthday + nonce) mod p and k = (photo_hash * contract) mod p, as a
\* 32-byte encoding; arguments that differ by p give the same key.
C8_KeyIsMimcOfSumAndProduct ==
    kdone =>
        /\ key1 = LeBytes(Mimc7_hash(10, KeyX(in1), KeyK(in1)), 32)
        /\ Len(key1) = 32
        /\ key2 = LeBytes(Mimc7_hash(10, KeyX(in2), KeyK(in2)), 32)

C8_Witness ==
    /\ kdone
    /\ in1.birthday + in1.nonce > P
    /\ in1.photo_hash * in1.contract > P
    /\ in1.photo_hash = 1 /\ in2.photo_hash = P + 1
    /\ in2.contract = in1.contract
    /\ key1 = key2

====
